---------------------------- MODULE Spec2Model ----------------------------
(***************************************************************************)
(* State-machine model of LaserPowerController                             *)
(* (src/logic/laser_power_controller.py): the calibration sweep driven by  *)
(* sigDoNextPoint and the single-shot QTimer, the control write with its   *)
(* bounds check, the interpolated / parametric power mapping and the       *)
(* switch overlay; and of the watchdog of SwitchLogic                      *)
(* (src/logic/switch_logic.py).                                            *)
(*                                                                         *)
(* Numbers.  Python floats are modelled in fixed point on integers:        *)
(*   - a control value is counted in millionths of the hardware unit, so   *)
(*     that the substitution  mini = maxi * 1e-6  of the logarithmic sweep *)
(*     is exactly one division by 1000000;                                 *)
(*   - a power is counted in hundredths of the unit of the model's 'max'   *)
(*     parameter (the estimator's default  max = 1  is 100);               *)
(*   - a quotient is rounded down to the grid where the float quotient is  *)
(*     rounded to 2^-53;                                                   *)
(*   - NaN is one reserved integer outside every range the model computes; *)
(*     comparisons with it go through Lt/Le, which are FALSE on NaN as in  *)
(*     IEEE; PInf is +inf, larger than every finite value of the model.    *)
(*                                                                         *)
(* Scheduling.  The object lives in the logic thread; the GUI reaches      *)
(* start/stop through Qt connections (gui/laser_power_controller/          *)
(* laser_power_controller_gui.py:233-234), so every handler runs to        *)
(* completion in that thread and sigDoNextPoint.emit(), emitted from the   *)
(* receiver's own thread, is a direct synchronous call.  One action is one *)
(* handler with every call it makes.                                       *)
(*                                                                         *)
(* Indices.  Sequences are 1-based: position p is the code's index p - 1.  *)
(***************************************************************************)
EXTENDS Integers, Sequences, FiniteSets, TLC

VARIABLES
    module_state,            \* 'idle' | 'running'  (self.module_state())
    timer,                   \* the single-shot QTimer is armed
    calibration_x,           \* control samples of the curve
    calibration_y,           \* power samples of the curve, NaN = missing
    resolution,              \* StatusVar resolution
    config_type,             \* StatusVar config_type
    hw_limits,               \* what the control back-end reports as limits
    config_control_limits,   \* ConfigOption control_limits, <<>> = None
    control,                 \* the value the control back-end holds
    model,                   \* ConfigOption model: 'none' | 'aom'
    model_params,            \* StatusVar model_params, <<>> = {}
    use_interpolated,        \* the interpolated mapping is the active one
    interpolated,            \* self._interpolated, <<>> = None
    interpolated_inverse,    \* self._interpolated_inverse, <<>> = None
    switch_connected,        \* power_switch.is_connected
    switch_state,            \* what the switch reports
    flaky,                   \* the adapters can raise, the meter answer NaN
    log,                     \* history: hardware calls of the current sweep
    last,                    \* history: the last call made and its outcome
    watchdog_active,         \* SwitchLogic._watchdog_active
    watchdog_queued,         \* queued invocations of _watchdog_body
    watchdog_timers,         \* pending QTimer.singleShot to _watchdog_body
    old_states,              \* SwitchLogic._old_states
    hardware_states          \* what the switch hardware reports as states

vars == <<module_state, timer, calibration_x, calibration_y, resolution,
          config_type, hw_limits, config_control_limits, control, model,
          model_params, use_interpolated, interpolated, interpolated_inverse,
          switch_connected, switch_state, flaky, log, last,
          watchdog_active, watchdog_queued, watchdog_timers, old_states,
          hardware_states>>

\* The variables by what owns them.
configVars  == <<hw_limits, config_control_limits, model, switch_connected,
                 flaky>>
settingVars == <<resolution, config_type>>
sweepVars   == <<module_state, timer, calibration_x, calibration_y>>
mappingVars == <<model_params, use_interpolated, interpolated,
                 interpolated_inverse>>
\* The SwitchLogic object (src/logic/switch_logic.py) and its hardware.
watchdogVars == <<watchdog_active, watchdog_queued, watchdog_timers,
                  old_states, hardware_states>>
\* The LaserPowerController object and its hardware.
controllerVars == <<sweepVars, settingVars, configVars, mappingVars, control,
                    switch_state, log>>

(***************************************************************************)
(* Bounds of the model.                                                    *)
(***************************************************************************)
MaxRes == 3
MaxNaNReads == 1

(***************************************************************************)
(* Floats.                                                                 *)
(***************************************************************************)
NaN == -1000000000
PInf == 1000000000

None == <<>>
Some(v) == <<v>>
IsNone(o) == Len(o) = 0
Val(o) == o[1]

IsNaN(v) == v = NaN
Lt(a, b) == ~IsNaN(a) /\ ~IsNaN(b) /\ a < b
Le(a, b) == ~IsNaN(a) /\ ~IsNaN(b) /\ a <= b
Max2(a, b) == IF a >= b THEN a ELSE b
Min2(a, b) == IF a <= b THEN a ELSE b

RECURSIVE Pow(_, _)
Pow(b, e) == IF e = 0 THEN 1 ELSE b * Pow(b, e - 1)

\* The largest r >= 0 with r^k <= q (q >= 0, 1 <= k <= 5), by bisection
\* below the largest r whose k-th power is a 32-bit integer.
RECURSIVE IRootIn(_, _, _, _)
IRootIn(k, q, lo, hi) ==
    IF lo = hi THEN lo
    ELSE LET mid == (lo + hi + 1) \div 2
         IN  IF Pow(mid, k) <= q THEN IRootIn(k, q, mid, hi)
             ELSE IRootIn(k, q, lo, mid - 1)
IRoot(k, q) ==
    IF k = 1 THEN q
    ELSE IRootIn(k, q, 0, IF k = 2 THEN 46340 ELSE IF k = 3 THEN 1290
                          ELSE IF k = 4 THEN 215 ELSE 73)


(***************************************************************************)
(* Bound resolver.                                                         *)
(***************************************************************************)
\* Mutant of get_control_limits: a configured limit replaces the back-end's.
get_control_limits_override_wins ==
    <<IF ~IsNone(config_control_limits[1])
      THEN Val(config_control_limits[1]) ELSE hw_limits[1],
      IF ~IsNone(config_control_limits[2])
      THEN Val(config_control_limits[2]) ELSE hw_limits[2]>>

\* _get_control_limits: the back-end's limits, each side tightened by the
\* configured limit when there is one.  Nothing checks low <= high.
get_control_limits ==
    LET limit_low  == IF ~IsNone(config_control_limits[1])
                      THEN Max2(Val(config_control_limits[1]), hw_limits[1])
                      ELSE hw_limits[1]
        limit_high == IF ~IsNone(config_control_limits[2])
                      THEN Min2(Val(config_control_limits[2]), hw_limits[2])
                      ELSE hw_limits[2]
    IN  <<limit_low, limit_high>>

\* Whether a call of an adapter raises: only a flaky one can.
Fails == IF flaky THEN BOOLEAN ELSE {FALSE}

\* Mutant of set_control: the bounds check left out.
set_control_unchecked(held, value, wfail) ==
    IF wfail
    THEN [control |-> held, wrote |-> FALSE, raised |-> TRUE]
    ELSE [control |-> value, wrote |-> TRUE, raised |-> FALSE]

\* _set_control: the bounds check, then the call of the back-end.  wfail
\* is the back-end raising.  The result says what the back-end holds
\* afterwards, whether it was written and whether the call raised.
set_control(held, value, wfail) ==
    LET lim == get_control_limits
    IN  IF ~(Le(lim[1], value) /\ Le(value, lim[2]))
        THEN [control |-> held, wrote |-> FALSE, raised |-> FALSE]
        ELSE IF wfail
             THEN [control |-> held, wrote |-> FALSE, raised |-> TRUE]
             ELSE [control |-> value, wrote |-> TRUE, raised |-> FALSE]

(***************************************************************************)
(* Sweep generation.                                                       *)
(***************************************************************************)
\* Mutant of Linspace: never fewer than one sample.
Linspace_nonempty(mini, maxi, n) ==
    IF n <= 1 THEN <<mini>>
    ELSE [p \in 1..n |-> mini + ((p - 1) * (maxi - mini)) \div (n - 1)]

\* Mutant of Linspace: the upper end is left out (endpoint=False).
Linspace_open(mini, maxi, n) ==
    [p \in 1..n |-> mini + ((p - 1) * (maxi - mini)) \div n]

\* np.linspace(mini, maxi, n)
Linspace(mini, maxi, n) ==
    IF n = 1 THEN <<mini>>
    ELSE [p \in 1..n |-> mini + ((p - 1) * (maxi - mini)) \div (n - 1)]

\* np.geomspace(mini, maxi, n): both ends exact, the ratio of neighbours the
\* (n-1)-th root of maxi/mini, here kept to one decimal.
Geomspace(mini, maxi, n) ==
    IF n = 1 THEN <<mini>>
    ELSE LET k     == n - 1
             step  == IRoot(k, (maxi * Pow(10, k)) \div mini)
         IN  [p \in 1..n |->
                 IF p = 1 THEN mini
                 ELSE IF p = n THEN maxi
                 ELSE (mini * Pow(step, p - 1)) \div Pow(10, p - 1)]

\* np.geomspace raises ValueError when an end is zero.
GeomspaceRaises(mini, maxi) == mini = 0 \/ maxi = 0

\* The samples start_configure_measurement generates (lines 306-312).
LogMini(mini, maxi) == IF mini = 0 THEN maxi \div 1000000 ELSE mini
SweepRaises ==
    LET lim == get_control_limits
    IN  config_type = "Logarithmic"
        /\ GeomspaceRaises(LogMini(lim[1], lim[2]), lim[2])
SweepSamples ==
    LET lim == get_control_limits
    IN  IF config_type = "Linear"
        THEN Linspace(lim[1], lim[2], resolution)
        ELSE Geomspace(LogMini(lim[1], lim[2]), lim[2], resolution)

(***************************************************************************)
(* Sweep driver.                                                           *)
(***************************************************************************)
\* _get_next_index: the position of the first NaN of y, 0 for None.
get_next_index(y) ==
    IF \A p \in 1..Len(y) : ~IsNaN(y[p]) THEN 0
    ELSE CHOOSE p \in 1..Len(y) :
            IsNaN(y[p]) /\ \A q \in 1..(p - 1) : ~IsNaN(y[q])

\* _next_point_apply_control, on the state st = [ms, timer, control, log]
\* with the curve (x, y).
next_point_apply_control(st, x, y, wfail) ==
    IF st.ms # "running" THEN st
    ELSE LET index == get_next_index(y)
         IN  IF index = 0
             THEN [st EXCEPT !.ms = "idle", !.res = "finished"]
             ELSE LET sc == set_control(st.control, x[index], wfail)
                  IN  IF sc.raised
                      THEN [st EXCEPT !.res = "raised"]
                      ELSE [st EXCEPT !.control = sc.control,
                                      !.wrote = sc.wrote,
                                      !.log = IF sc.wrote
                                              THEN Append(@, <<"w", index>>)
                                              ELSE @,
                                      !.timer = TRUE,
                                      !.res = "stepped"]

\* The record of a call: what was called, how it ended, whether the
\* back-end was written, whether a warning was logged, what was returned
\* and the Qt signals the call emitted, in order.
L(op, res) == [op |-> op, res |-> res, wrote |-> FALSE, warned |-> FALSE,
               ret |-> 0, emits |-> <<>>]

\* Mutant of TimesNaN: the samples of an earlier sweep of the same length
\* are kept, and only the missing ones are measured.
TimesNaN_keeping(x) ==
    IF Len(calibration_y) = Len(x) /\ Len(x) > 0 THEN calibration_y
    ELSE [p \in 1..Len(x) |-> NaN]

\* Mutant of TimesNaN: the power array is one entry shorter than the
\* control array.
TimesNaN_short(x) == [p \in 1..(Len(x) - 1) |-> NaN]

\* calibration_x * np.NaN (line 313): an array as long as x, every entry NaN.
TimesNaN(x) == [p \in 1..Len(x) |-> NaN]

\* start_configure_measurement past its guard (lines 305-314): the state
\* goes to 'running', the curve is replaced, the first point is applied.
\* The record of an accepted start also says which call came before it.
start_sweep(wfail) ==
    IF SweepRaises
    THEN /\ module_state' = "running"
         /\ last' = L("start", "raised")
         /\ UNCHANGED <<timer, calibration_x, calibration_y, settingVars,
                        configVars, watchdogVars, mappingVars, control, switch_state, log>>
    ELSE LET xs == SweepSamples
             ys == TimesNaN(xs)
             st == next_point_apply_control(
                       [ms |-> "running", timer |-> FALSE,
                        control |-> control, log |-> <<>>,
                        wrote |-> FALSE, res |-> ""], xs, ys, wfail)
         IN  /\ module_state' = st.ms
             /\ timer' = st.timer
             /\ calibration_x' = xs
             /\ calibration_y' = ys
             /\ control' = st.control
             /\ log' = st.log
             /\ last' = [op |-> "start", res |-> st.res, wrote |-> st.wrote,
                          warned |-> FALSE, ret |-> 0,
                          emits |-> <<"sigDoNextPoint">>,
                          after |-> last.op]
             /\ UNCHANGED <<settingVars, configVars, watchdogVars, mappingVars,
                            switch_state>>

\* Mutant of start_configure_measurement: no look at module_state.
start_configure_measurement_unguarded == \E wfail \in Fails : start_sweep(wfail)

\* start_configure_measurement
start_configure_measurement ==
    \E wfail \in Fails :
        IF module_state # "idle"
        THEN /\ last' = L("start", "rejected")
             /\ UNCHANGED <<sweepVars, settingVars, configVars, watchdogVars, mappingVars,
                            control, switch_state, log>>
        ELSE start_sweep(wfail)

\* Mutant of stop_configure_measurement: the curve is cleared on stop.
stop_configure_measurement_clearing ==
    IF module_state = "running"
    THEN /\ module_state' = "idle"
         /\ timer' = FALSE
         /\ calibration_y' = [p \in 1..Len(calibration_y) |-> NaN]
         /\ last' = L("stop", "stopped")
         /\ UNCHANGED <<calibration_x, settingVars, configVars, watchdogVars, mappingVars,
                        control, switch_state, log>>
    ELSE /\ last' = L("stop", "raised")
         /\ UNCHANGED <<sweepVars, settingVars, configVars, watchdogVars, mappingVars,
                        control, switch_state, log>>

\* Mutant of stop_configure_measurement: the module is parked in a state of
\* its own instead of going back to 'idle'.
stop_configure_measurement_parking ==
    IF module_state = "running"
    THEN /\ module_state' = "aborted"
         /\ timer' = FALSE
         /\ last' = L("stop", "stopped")
         /\ UNCHANGED <<calibration_x, calibration_y, settingVars,
                        configVars, watchdogVars, mappingVars, control, switch_state, log>>
    ELSE /\ last' = L("stop", "raised")
         /\ UNCHANGED <<sweepVars, settingVars, configVars, watchdogVars, mappingVars,
                        control, switch_state, log>>

\* Mutant of stop_configure_measurement: the timer is left armed.
stop_configure_measurement_timer_left ==
    IF module_state = "running"
    THEN /\ module_state' = "idle"
         /\ last' = L("stop", "stopped")
         /\ UNCHANGED <<timer, calibration_x, calibration_y, settingVars,
                        configVars, watchdogVars, mappingVars, control, switch_state, log>>
    ELSE /\ last' = L("stop", "raised")
         /\ UNCHANGED <<sweepVars, settingVars, configVars, watchdogVars, mappingVars,
                        control, switch_state, log>>

\* Mutant of stop_configure_measurement: the timer is started anew instead
\* of stopped.
stop_configure_measurement_rearming ==
    IF module_state = "running"
    THEN /\ module_state' = "idle"
         /\ timer' = TRUE
         /\ last' = L("stop", "stopped")
         /\ UNCHANGED <<calibration_x, calibration_y, settingVars,
                        configVars, watchdogVars, mappingVars, control, switch_state, log>>
    ELSE /\ last' = L("stop", "raised")
         /\ UNCHANGED <<sweepVars, settingVars, configVars, watchdogVars, mappingVars,
                        control, switch_state, log>>

\* stop_configure_measurement: module_state.stop() raises outside
\* 'running', before timer.stop() is reached.
stop_configure_measurement ==
    IF module_state = "running"
    THEN /\ module_state' = "idle"
         /\ timer' = FALSE
         /\ last' = L("stop", "stopped")
         /\ UNCHANGED <<calibration_x, calibration_y, settingVars,
                        configVars, watchdogVars, mappingVars, control, switch_state, log>>
    ELSE /\ last' = L("stop", "raised")
         /\ UNCHANGED <<sweepVars, settingVars, configVars, watchdogVars, mappingVars,
                        control, switch_state, log>>

\* What the power meter can answer: two powers for a sound one; a power or
\* NaN for a flaky one (a meter that could not be read, as
\* hardware/temperature/cryocon.py:95-96 answers).
Readings == IF flaky THEN {NaN, 100} ELSE {50, 100}

\* The NaN answers among the reads of the current sweep.
NaNReads ==
    Cardinality({i \in 1..Len(log) : log[i][1] = "r"})
    - Cardinality({p \in 1..Len(calibration_y) : ~IsNaN(calibration_y[p])})

\* The timer's timeout: _next_point_measure_power, and through
\* sigDoNextPoint the next _next_point_apply_control.  rfail is the power
\* meter raising.
next_point_measure_power ==
    /\ timer
    /\ \E value \in Readings, rfail \in Fails, wfail \in Fails :
        /\ IsNaN(value) => NaNReads < MaxNaNReads
        /\ IF module_state # "running"
           THEN /\ timer' = FALSE
                /\ last' = L("measure", "ignored")
                /\ UNCHANGED <<module_state, calibration_x, calibration_y,
                               control, log>>
           ELSE IF rfail
           THEN /\ timer' = FALSE
                /\ last' = L("measure", "raised")
                /\ UNCHANGED <<module_state, calibration_x, calibration_y,
                               control, log>>
           ELSE LET index == get_next_index(calibration_y)
                    ys == [calibration_y EXCEPT ![index] = value]
                    st == next_point_apply_control(
                              [ms |-> module_state, timer |-> FALSE,
                               control |-> control,
                               log |-> Append(log, <<"r", index>>),
                               wrote |-> FALSE, res |-> ""],
                              calibration_x, ys, wfail)
                IN  /\ module_state' = st.ms
                    /\ timer' = st.timer
                    /\ calibration_y' = ys
                    /\ control' = st.control
                    /\ log' = st.log
                    /\ last' = [L("measure", st.res)
                                  EXCEPT !.wrote = st.wrote,
                                         !.emits = <<"sigDoNextPoint">>]
                    /\ UNCHANGED calibration_x
        /\ UNCHANGED <<settingVars, configVars, watchdogVars, mappingVars, switch_state>>

\* Mutant of set_resolution: the curve is cut anew to the new resolution.
set_resolution_regenerating ==
    /\ \E value \in 0..MaxRes :
          /\ resolution' = value
          /\ calibration_x' = [p \in 1..value |-> hw_limits[1]]
          /\ calibration_y' = [p \in 1..value |-> NaN]
    /\ last' = L("set_resolution", "ok")
    /\ UNCHANGED <<module_state, timer, config_type, configVars, watchdogVars, mappingVars,
                   control, switch_state, log>>

\* set_resolution, set_type
set_resolution ==
    /\ \E value \in 0..MaxRes : resolution' = value
    /\ last' = L("set_resolution", "ok")
    /\ UNCHANGED <<sweepVars, config_type, configVars, watchdogVars, mappingVars, control,
                   switch_state, log>>

\* Mutant of set_type: whatever is given is taken.
set_type_unchecked ==
    /\ \E value \in {"Logarithmic", "Linear", "Other"} :
         /\ last' = L("set_type", "ok")
         /\ config_type' = value
    /\ UNCHANGED <<sweepVars, resolution, configVars, watchdogVars, mappingVars, control,
                   switch_state, log>>

set_type ==
    /\ \E value \in {"Logarithmic", "Linear", "Other"} :
         IF value \notin {"Logarithmic", "Linear"}
         THEN /\ last' = L("set_type", "refused")
              /\ UNCHANGED config_type
         ELSE /\ last' = L("set_type", "ok")
              /\ config_type' = value
    /\ UNCHANGED <<sweepVars, resolution, configVars, watchdogVars, mappingVars, control,
                   switch_state, log>>

(***************************************************************************)
(* Power mapping: interpolated.                                            *)
(***************************************************************************)
\* scipy.interpolate.interp1d(x, y, fill_value="extrapolate"), linear.  The
\* object keeps its own copy of the two arrays.  The constructor raises for
\* fewer than two entries; it does not look for NaN.
Interp1dRaises(x, y) == Len(x) < 2
Interp1d(x, y) == [x |-> x, y |-> y]

\* The constructor sorts the points by x (stable, NaN last).
SortKey(v) == IF IsNaN(v) THEN PInf + 1 ELSE v
Rank(x, i) ==
    1 + Cardinality({j \in 1..Len(x) :
            \/ SortKey(x[j]) < SortKey(x[i])
            \/ SortKey(x[j]) = SortKey(x[i]) /\ j < i})
\* The position in x of the point that the sort puts at rank r.
ArgSort(x, r) == CHOOSE i \in 1..Len(x) : Rank(x, i) = r

\* Linear interpolation at v in the segment from (xlo, ylo) to (xhi, yhi).
\* A segment of zero width divides by zero.
InterpSegment(xlo, ylo, xhi, yhi, v) ==
    IF IsNaN(v) \/ IsNaN(xlo) \/ IsNaN(xhi) \/ IsNaN(ylo) \/ IsNaN(yhi)
    THEN NaN
    ELSE IF xhi = xlo
    THEN IF yhi = ylo \/ v = xlo THEN NaN
         ELSE IF (yhi > ylo) = (v > xlo) THEN PInf
         ELSE 0 - PInf
    ELSE ylo + ((yhi - ylo) * (v - xlo)) \div (xhi - xlo)

\* The call f(v): the segment is found by searchsorted and clipped to the
\* array, so a value outside the samples is extrapolated from the first or
\* the last segment.
InterpCall(f, v) ==
    LET n   == Len(f.x)
        idx == Cardinality({r \in 1..n : Lt(f.x[r], v)})
        hi  == Max2(1, Min2(idx, n - 1)) + 1
    IN  CHOOSE w \in {InterpSegment(f.x[p[1]], f.y[p[1]],
                                    f.x[p[2]], f.y[p[2]], v) :
                         p \in {<<ArgSort(f.x, hi - 1), ArgSort(f.x, hi)>>}} :
               TRUE

\* _compute_interpolated: the two interpolators it leaves behind.
compute_interpolated ==
    IF Len(calibration_y) = 0 \/ Interp1dRaises(calibration_x, calibration_y)
    THEN <<interpolated, interpolated_inverse>>
    ELSE <<Some(Interp1d(calibration_x, calibration_y)),
           Some(Interp1d(calibration_y, calibration_x))>>

(***************************************************************************)
(* Power mapping: parametric ('aom').                                      *)
(***************************************************************************)
\* The ratio control / sigma is kept in quarters.
\* _aom_model:  max / (1 + (sigma / control)^slope)^beta,  0 at control 0.
aom_model(params, c) ==
    LET q == (4 * c) \div params.sigma
    IN  IF c = 0 THEN 0
        ELSE (params.max * Pow(q, params.slope * params.beta))
                 \div Pow(Pow(q, params.slope) + Pow(4, params.slope),
                          params.beta)

\* _aom_model_inverse:  sigma * (1 / ((max/power)^beta - 1))^(1/slope).
\* power = 0 is made NaN and the NaN result 0; so is every NaN the formula
\* itself produces (a negative base under the root: power < 0 or
\* power > max); power = max divides by zero and gives +inf.
aom_model_inverse(params, power) ==
    LET num == Pow(power, params.beta)
        den == Pow(params.max, params.beta) - num
    IN  IF power = 0 \/ IsNaN(power) THEN 0
        ELSE IF power < 0 \/ den < 0 THEN 0
        ELSE IF den = 0 THEN PInf
        ELSE (params.sigma
                * IRoot(params.slope, (num * Pow(4, params.slope)) \div den))
             \div 4

\* _aom_model_estimator() without data: the start parameters.
aom_model_estimator ==
    LET lim == get_control_limits
    IN  [max |-> 100,
         sigma |-> (Max2(lim[1], lim[2]) - Min2(lim[1], lim[2])) \div 2,
         slope |-> 5, beta |-> 1]

\* get_model_functions returns None unless the model is 'aom', and the
\* caller's tuple unpacking then raises TypeError.
ModelFunctionsRaise == model # "aom"

(***************************************************************************)
(* Power queries.                                                          *)
(***************************************************************************)
SeqMax(y) == IF \E p \in 1..Len(y) : IsNaN(y[p]) THEN NaN
             ELSE CHOOSE v \in {y[p] : p \in 1..Len(y)} :
                      \A p \in 1..Len(y) : y[p] <= v
SeqMin(y) == IF \E p \in 1..Len(y) : IsNaN(y[p]) THEN NaN
             ELSE CHOOSE v \in {y[p] : p \in 1..Len(y)} :
                      \A p \in 1..Len(y) : y[p] >= v

\* power_max, power_min (they raise in parametric mode without a model).
power_max ==
    IF use_interpolated
    THEN IF Len(calibration_y) = 0 THEN 0 ELSE SeqMax(calibration_y)
    ELSE LET lim == get_control_limits
         IN  Max2(aom_model(Val(model_params), lim[1]),
                  aom_model(Val(model_params), lim[2]))
power_min ==
    IF use_interpolated
    THEN IF Len(calibration_y) = 0 THEN 0 ELSE SeqMin(calibration_y)
    ELSE LET lim == get_control_limits
         IN  Min2(aom_model(Val(model_params), lim[1]),
                  aom_model(Val(model_params), lim[2]))

\* Mutant of power_bounds_call: the reading clears the curve's power samples
\* it has just looked at.
power_bounds_call_clearing ==
    /\ IF ~use_interpolated /\ ModelFunctionsRaise
       THEN last' = L("power_bounds", "raised")
       ELSE last' = [L("power_bounds", "ok")
                       EXCEPT !.ret = <<power_min, power_max>>]
    /\ calibration_y' = [p \in 1..Len(calibration_y) |-> NaN]
    /\ UNCHANGED <<module_state, timer, calibration_x, settingVars,
                   configVars, watchdogVars, mappingVars, control, switch_state, log>>

\* A reading of the two properties power_min and power_max.
power_bounds_call ==
    /\ IF ~use_interpolated /\ ModelFunctionsRaise
       THEN last' = L("power_bounds", "raised")
       ELSE last' = [L("power_bounds", "ok")
                       EXCEPT !.ret = <<power_min, power_max>>]
    /\ UNCHANGED <<sweepVars, settingVars, configVars, watchdogVars, mappingVars, control,
                   switch_state, log>>

\* get_switch_state: <<>> is None (no switch connected).
get_switch_state == IF switch_connected THEN Some(switch_state) ELSE None

\* get_power_setpoint (it raises in parametric mode without a model).
get_power_setpoint ==
    IF use_interpolated
    THEN IF IsNone(interpolated) THEN 0
         ELSE InterpCall(Val(interpolated), control)
    ELSE aom_model(Val(model_params), control)

\* Mutant of get_power_value: the switch is not asked.
get_power_value_no_switch ==
    IF ~use_interpolated /\ ModelFunctionsRaise THEN 0 ELSE get_power_setpoint

\* get_power: the switch is asked first, the setpoint only when it is not
\* off.
get_power_value ==
    IF get_switch_state # Some(FALSE) THEN get_power_setpoint ELSE 0

get_power ==
    /\ IF get_switch_state # Some(FALSE) /\ ~use_interpolated
          /\ ModelFunctionsRaise
       THEN last' = L("get_power", "raised")
       ELSE last' = [L("get_power", "ok") EXCEPT !.ret = get_power_value]
    /\ UNCHANGED <<sweepVars, settingVars, configVars, watchdogVars, mappingVars, control,
                   switch_state, log>>

\* set_switch_state
set_switch_state ==
    /\ \E value \in BOOLEAN :
         IF switch_connected
         THEN /\ switch_state' = value
              /\ last' = L("set_switch_state", "ok")
         ELSE /\ last' = L("set_switch_state", "no_switch")
              /\ UNCHANGED switch_state
    /\ UNCHANGED <<sweepVars, settingVars, configVars, watchdogVars, mappingVars, control,
                   log>>

(***************************************************************************)
(* set_power.                                                              *)
(***************************************************************************)
\* The powers a caller asks for.
PowerInputs == {0, 50, 100, 200}

\* Mutant of set_power_uncalibrated: the upper control limit is written.
set_power_uncalibrated_writing(warned) ==
    /\ last' = [L("set_power", "set") EXCEPT !.warned = warned,
                                             !.wrote = TRUE]
    /\ control' = get_control_limits[2]

\* set_power where the interpolated mapping is active and no inverse has
\* been built (lines 217-219): a warning, and nothing else.
set_power_uncalibrated(warned) ==
    /\ last' = [L("set_power", "uncalibrated") EXCEPT !.warned = warned]
    /\ UNCHANGED control

\* set_power(value), but for the switch, which it never names.
set_power_call(value, wfail) ==
    /\ IF ~use_interpolated /\ ModelFunctionsRaise
       THEN \* power_min raises before anything is done
            /\ last' = L("set_power", "raised")
            /\ UNCHANGED control
       ELSE LET warned == Lt(value, power_min) \/ Lt(power_max, value)
            IN  IF use_interpolated /\ IsNone(interpolated_inverse)
                THEN set_power_uncalibrated(warned)
                ELSE LET c  == IF use_interpolated
                               THEN InterpCall(Val(interpolated_inverse),
                                               value)
                               ELSE aom_model_inverse(Val(model_params),
                                                      value)
                         sc == set_control(control, c, wfail)
                     IN  /\ control' = sc.control
                         /\ last' = [L("set_power",
                                       IF sc.raised THEN "raised"
                                       ELSE IF sc.wrote THEN "set"
                                       ELSE "refused")
                                       EXCEPT !.warned = warned,
                                              !.wrote = sc.wrote,
                                              !.emits =
                                                 IF sc.raised THEN <<>>
                                                 ELSE <<"sigNewPower">>]
    /\ UNCHANGED <<sweepVars, settingVars, configVars, watchdogVars, mappingVars, log>>

\* Mutant of set_power: it switches the output on as well.
set_power_switching_on ==
    \E value \in PowerInputs, wfail \in Fails :
        set_power_call(value, wfail) /\ switch_state' = TRUE

set_power ==
    \E value \in PowerInputs, wfail \in Fails :
        set_power_call(value, wfail) /\ UNCHANGED switch_state

(***************************************************************************)
(* fit, set_interpolated.                                                  *)
(***************************************************************************)
\* set_interpolated(value): the interpolators are recomputed, then the mode
\* is taken whatever came of it.
set_interpolated_to(value, op) ==
    /\ interpolated' = compute_interpolated[1]
    /\ interpolated_inverse' = compute_interpolated[2]
    /\ use_interpolated' = value
    /\ last' = [L(op, IF Len(calibration_y) = 0 THEN "empty"
                      ELSE IF Interp1dRaises(calibration_x, calibration_y)
                      THEN "unusable" ELSE "computed")
                   EXCEPT !.emits = <<"sigNewPowerRange", "sigNewPower">>]
    /\ UNCHANGED <<sweepVars, settingVars, configVars, watchdogVars, model_params, control,
                   switch_state, log>>

set_interpolated == \E value \in BOOLEAN :
                        set_interpolated_to(value, "set_interpolated")

\* Mutant of fit: a fit moves the controller to the interpolated mapping.
fit_switching == set_interpolated_to(TRUE, "fit")

\* fit: in interpolated mode set_interpolated(True).  In parametric mode
\* lmfit.minimize calls model(params, x, y) on _aom_model(self, params,
\* control), which raises TypeError (as does the unpacking without a
\* model): model_params is never assigned.
fit ==
    IF use_interpolated
    THEN set_interpolated_to(TRUE, "fit")
    ELSE /\ last' = L("fit", "raised")
         /\ UNCHANGED <<sweepVars, settingVars, configVars, watchdogVars, mappingVars,
                        control, switch_state, log>>

(***************************************************************************)
(* SwitchLogic (src/logic/switch_logic.py): the watchdog that polls the    *)
(* switch hardware.  toggle_watchdog queues an invocation of               *)
(* _watchdog_body; _watchdog_body, when the watchdog is active, polls and  *)
(* arms a single-shot timer to itself.  The calls hold _thread_lock, so    *)
(* each is one step.                                                       *)
(***************************************************************************)
\* The most invocations of _watchdog_body pending at a time that the model
\* follows.
MaxPending == 3

\* The switches of the hardware and the states of each.
Switches == {"one", "two"}
SwitchStates == {"down", "up"}

\* The switches whose state differs from the one last seen (diff_state).
diff_state == {sw \in Switches : hardware_states[sw] # old_states[sw]}

\* What the hardware can report at activation: every switch down, or any
\* state of each.
SwitchesDown == {[sw \in Switches |-> "down"]}
SwitchesAny == [Switches -> SwitchStates]

\* SwitchLogic.on_activate, the part on the watchdog (lines 99-106), with
\* the hardware reporting one of reported.
switch_logic_on_activate(autostart, reported) ==
    /\ hardware_states \in reported
    /\ old_states = hardware_states
    /\ watchdog_active = autostart
    /\ watchdog_queued = (IF autostart THEN 1 ELSE 0)
    /\ watchdog_timers = 0

\* The hardware changes the state of a switch by itself.
hardware_changes ==
    /\ \E sw \in Switches, st \in SwitchStates :
          /\ hardware_states[sw] # st
          /\ hardware_states' = [hardware_states EXCEPT ![sw] = st]
    /\ last' = L("hardware_changes", "ok")
    /\ UNCHANGED <<watchdog_active, watchdog_queued, watchdog_timers,
                   old_states, controllerVars>>

\* The property states (lines 175-188): the hardware is asked, and what it
\* answers is kept as the states last seen.
states ==
    /\ old_states' = hardware_states
    /\ last' = L("states", "ok")
    /\ UNCHANGED <<watchdog_active, watchdog_queued, watchdog_timers,
                   hardware_states, controllerVars>>

\* toggle_watchdog(enable)
toggle_watchdog ==
    /\ \E enable \in BOOLEAN :
          IF enable # watchdog_active
          THEN /\ enable => watchdog_queued + watchdog_timers < MaxPending
               /\ watchdog_active' = enable
               /\ watchdog_queued' = (IF enable THEN watchdog_queued + 1
                                      ELSE watchdog_queued)
               /\ last' = [L("toggle_watchdog", "toggled")
                             EXCEPT !.emits = <<"sigWatchdogToggled">>]
          ELSE /\ last' = L("toggle_watchdog", "same")
               /\ UNCHANGED <<watchdog_active, watchdog_queued>>
    /\ UNCHANGED <<watchdog_timers, old_states, hardware_states,
                   controllerVars>>

\* _watchdog_body, reached by way of via (the event loop's queue or a
\* timer), with queued and timers the invocations pending once the one that
\* runs is taken off.
watchdog_body(via, queued, timers) ==
    /\ IF watchdog_active
       THEN /\ old_states' = hardware_states
            /\ last' = [L(via, "polled")
                          EXCEPT !.emits = IF diff_state # {}
                                           THEN <<"sigSwitchesChanged">>
                                           ELSE <<>>]
            /\ watchdog_timers' = timers + 1
       ELSE /\ last' = L(via, "inactive")
            /\ watchdog_timers' = timers
            /\ UNCHANGED old_states
    /\ watchdog_queued' = queued
    /\ UNCHANGED <<watchdog_active, hardware_states, controllerVars>>

\* The event loop delivers a queued invocation of _watchdog_body.
watchdog_invoked ==
    /\ watchdog_queued > 0
    /\ watchdog_body("watchdog_invoked", watchdog_queued - 1,
                     watchdog_timers)

\* A single-shot timer armed by _watchdog_body fires.
watchdog_timeout ==
    /\ watchdog_timers > 0
    /\ watchdog_body("watchdog_timeout", watchdog_queued,
                     watchdog_timers - 1)

(***************************************************************************)
(* Installations.  The back-end reports the limits [0, 1] (in millionths). *)
(* The configuration gives no limit, a lower limit inside the back-end's,  *)
(* or a lower limit above them (an empty range); the model is 'none' or    *)
(* 'aom'; a switch is connected or not; the adapters are sound or flaky.   *)
(***************************************************************************)
Installation(cfgLow, m, sw, fl) ==
    [hw |-> <<0, 1000000>>, cfg |-> <<cfgLow, None>>, model |-> m,
     switch |-> sw, flaky |-> fl]

\* The state on_activate leaves: interpolated by default when there is no
\* model; the persisted curve is empty, so no interpolator is computed; the
\* parameters of a model are its estimator's.  resolution and config_type
\* are persisted settings.
InitWith(installations, resolutions, types) ==
    /\ module_state = "idle"
    /\ timer = FALSE
    /\ calibration_x = <<>>
    /\ calibration_y = <<>>
    /\ resolution \in resolutions
    /\ config_type \in types
    /\ \E c \in installations :
          /\ hw_limits = c.hw
          /\ config_control_limits = c.cfg
          /\ model = c.model
          /\ switch_connected = c.switch
          /\ flaky = c.flaky
    /\ control = hw_limits[1]
    /\ use_interpolated = (model = "none")
    /\ interpolated = None
    /\ interpolated_inverse = None
    /\ model_params = IF model = "aom" THEN Some(aom_model_estimator) ELSE None
    /\ switch_state = TRUE
    /\ log = <<>>
    /\ last = L("activate", "ok")
    /\ switch_logic_on_activate(FALSE, SwitchesDown)

(***************************************************************************)
(* Spec: the controller in use with sound adapters: sweeps, set_power, fit *)
(* and the change of mapping, without a model and with the 'aom' model.    *)
(***************************************************************************)
Init ==
    InitWith({Installation(None, "none", FALSE, FALSE),
              Installation(None, "aom", FALSE, FALSE),
              Installation(Some(250000), "aom", FALSE, FALSE)},
             {MaxRes}, {"Linear"})

Next ==
    \/ start_configure_measurement
    \/ stop_configure_measurement
    \/ next_point_measure_power
    \/ set_power
    \/ set_interpolated
    \/ fit

Spec == Init /\ [][Next]_vars

(***************************************************************************)
(* SpecSweep: the sweep driver with its settings, over flaky adapters and  *)
(* the three kinds of limits.                                              *)
(***************************************************************************)
InitSweep ==
    InitWith({Installation(None, "none", FALSE, TRUE),
              Installation(Some(250000), "none", FALSE, TRUE),
              Installation(Some(4000000), "none", FALSE, TRUE)},
             0..MaxRes, {"Logarithmic"})

NextSweep ==
    \/ start_configure_measurement
    \/ stop_configure_measurement
    \/ next_point_measure_power
    \/ set_resolution
    \/ set_type

SpecSweep == InitSweep /\ [][NextSweep]_vars

(***************************************************************************)
(* SpecSwitch: the switch overlay on the power read back.                  *)
(***************************************************************************)
InitSwitch ==
    InitWith({Installation(None, "aom", TRUE, FALSE),
              Installation(None, "aom", FALSE, FALSE),
              Installation(None, "none", TRUE, FALSE)},
             {2}, {"Linear"})

NextSwitch ==
    \/ start_configure_measurement
    \/ next_point_measure_power
    \/ set_interpolated
    \/ set_power
    \/ set_switch_state
    \/ get_power
    \/ fit

SpecSwitch == InitSwitch /\ [][NextSwitch]_vars

(***************************************************************************)
(* SpecQuery: the read-only queries made while sweeps run and the mapping  *)
(* is changed, with sound adapters.                                        *)
(***************************************************************************)
InitQuery ==
    InitWith({Installation(None, "none", TRUE, FALSE),
              Installation(Some(250000), "aom", FALSE, FALSE)},
             {MaxRes}, {"Linear"})

NextQuery ==
    \/ start_configure_measurement
    \/ stop_configure_measurement
    \/ next_point_measure_power
    \/ set_interpolated
    \/ get_power
    \/ power_bounds_call

SpecQuery == InitQuery /\ [][NextQuery]_vars

(***************************************************************************)
(* SpecMapping: the bound resolver and the parametric mapping as functions *)
(* of their inputs.  The back-end's limits, the configured limits and the  *)
(* persisted model parameters are drawn from small sets; the actions apply *)
(* the functions and record what they return.                              *)
(***************************************************************************)
\* Persisted parameter sets of the 'aom' model, each increasing in the
\* control value: the estimator's sigma, slope and beta for the limits
\* [0, 1], and others.  Where beta = 1, 'max' is chosen so that the powers
\* of ControlInputs fall on the grid and the fixed-point arithmetic is exact.
ParamSets ==
    {[max |-> 66, sigma |-> 500000, slope |-> 5, beta |-> 1],
     [max |-> 840, sigma |-> 250000, slope |-> 1, beta |-> 1],
     [max |-> 850, sigma |-> 500000, slope |-> 2, beta |-> 1],
     [max |-> 100, sigma |-> 500000, slope |-> 2, beta |-> 2]}

\* The control values the mapping is asked about.
ControlInputs == {0, 250000, 500000, 1000000}

LimitInstallations ==
    {[hw |-> hw, cfg |-> <<lo, hi>>, model |-> "aom", switch |-> FALSE,
      flaky |-> FALSE] :
        hw \in {<<0, 1000000>>, <<250000, 750000>>},
        lo \in {None, Some(0), Some(500000), Some(2000000)},
        hi \in {None, Some(500000), Some(2000000)}}

\* A call of _get_control_limits.
get_control_limits_call ==
    /\ last' = [L("get_control_limits", "ok") EXCEPT !.ret = get_control_limits]
    /\ UNCHANGED <<sweepVars, settingVars, configVars, watchdogVars, mappingVars, control,
                   switch_state, log>>

\* The direct function of the model applied to a control value within the
\* limits, and the inverse function applied to the power it returns.
aom_round_trip ==
    /\ \E c \in ControlInputs :
          /\ get_control_limits[1] <= c /\ c <= get_control_limits[2]
          /\ LET power == aom_model(Val(model_params), c)
             IN  last' = [op |-> "aom_round_trip", res |-> "ok",
                          wrote |-> FALSE, warned |-> FALSE,
                          emits |-> <<>>, arg |-> c,
                          power |-> power,
                          ret |-> aom_model_inverse(Val(model_params), power)]
    /\ UNCHANGED <<sweepVars, settingVars, configVars, watchdogVars, mappingVars, control,
                   switch_state, log>>

InitMapping ==
    /\ module_state = "idle"
    /\ timer = FALSE
    /\ calibration_x = <<>>
    /\ calibration_y = <<>>
    /\ resolution = 2
    /\ config_type = "Linear"
    /\ \E c \in LimitInstallations :
          /\ hw_limits = c.hw
          /\ config_control_limits = c.cfg
          /\ model = c.model
          /\ switch_connected = c.switch
          /\ flaky = c.flaky
    /\ control = hw_limits[1]
    /\ use_interpolated = FALSE
    /\ interpolated = None
    /\ interpolated_inverse = None
    /\ model_params \in {Some(p) : p \in ParamSets}
    /\ switch_state = TRUE
    /\ log = <<>>
    /\ last = L("activate", "ok")
    /\ switch_logic_on_activate(FALSE, SwitchesDown)

NextMapping ==
    \/ get_control_limits_call
    \/ aom_round_trip
    \/ set_power
    \/ get_power

SpecMapping == InitMapping /\ [][NextMapping]_vars

(***************************************************************************)
(* SpecWatchdog: the watchdog of SwitchLogic, switched on and off while    *)
(* its invocations and timers are pending, with or without autostart.      *)
(***************************************************************************)
InitWatchdog ==
    /\ module_state = "idle"
    /\ timer = FALSE
    /\ calibration_x = <<>>
    /\ calibration_y = <<>>
    /\ resolution = 2
    /\ config_type = "Logarithmic"
    /\ hw_limits = <<0, 1000000>>
    /\ config_control_limits = <<None, None>>
    /\ model = "none"
    /\ switch_connected = FALSE
    /\ flaky = FALSE
    /\ control = hw_limits[1]
    /\ use_interpolated = TRUE
    /\ interpolated = None
    /\ interpolated_inverse = None
    /\ model_params = None
    /\ switch_state = TRUE
    /\ log = <<>>
    /\ last = L("activate", "ok")
    /\ \E autostart \in BOOLEAN : switch_logic_on_activate(autostart, SwitchesAny)

NextWatchdog ==
    \/ toggle_watchdog
    \/ watchdog_invoked
    \/ watchdog_timeout
    \/ hardware_changes
    \/ states

SpecWatchdog == InitWatchdog /\ [][NextWatchdog]_vars

(***************************************************************************)
(* Properties.                                                             *)
(***************************************************************************)
HasNaN(y) == \E p \in 1..Len(y) : IsNaN(y[p])
HasValue(y) == \E p \in 1..Len(y) : ~IsNaN(y[p])

\* The valid samples of y are its first k entries, for some k.
FilledPrefix(y) ==
    \E k \in 0..Len(y) : \A p \in 1..Len(y) : (p <= k) <=> ~IsNaN(y[p])

\* C1: a start_configure_measurement made while the module is not idle is
\* rejected, and changes neither the sweep state, the timer, the curve, the
\* value the back-end holds nor the record of the sweep's hardware calls:
\* no second sweep starts from it.
C1_SingleFlight ==
    [][(last'.op = "start" /\ module_state # "idle")
         => /\ last'.res = "rejected"
            /\ UNCHANGED <<sweepVars, control, log, settingVars,
                           mappingVars>>]_vars

C1_Witness ==
    /\ last.op = "start" /\ last.res = "rejected"
    /\ module_state = "running" /\ timer
    /\ HasValue(calibration_y) /\ HasNaN(calibration_y)

\* C2: the hardware calls of a sweep are  write control[0], read into 0,
\* write control[1], read into 1, ...  in this order, each index written
\* once and measured once.
SweepOrder(n) ==
    [i \in 1..(2 * n) |-> IF i % 2 = 1 THEN <<"w", (i + 1) \div 2>>
                          ELSE <<"r", i \div 2>>]
C2_SweepOrdering ==
    /\ Len(log) <= 2 * Len(calibration_x)
    /\ \A i \in 1..Len(log) : log[i] = SweepOrder(Len(calibration_x))[i]

\* C3: a sweep of n samples that finishes has all its n entries filled and
\* has read the power meter exactly n times.
C3_Completion ==
    (last.op = "measure" /\ last.res = "finished")
        => /\ ~HasNaN(calibration_y)
           /\ Cardinality({i \in 1..Len(log) : log[i][1] = "r"})
                 = Len(calibration_x)

\* C4: stop_configure_measurement leaves the curve as it finds it, the k
\* samples measured so far valid at indices 0..k-1 and the others missing,
\* and nothing but the next accepted start_configure_measurement changes the
\* curve of an idle module.
C4_AbortKeepsPartialCurve ==
    [][(/\ \/ last'.op = "stop" /\ last'.res = "stopped"
           \/ module_state = "idle"
        /\ ~(last'.op = "start" /\ last'.res # "rejected"))
         => /\ UNCHANGED <<calibration_x, calibration_y>>
            /\ FilledPrefix(calibration_y')]_vars

C4_Witness ==
    /\ last.op = "stop" /\ last.res = "stopped"
    /\ module_state = "idle"
    /\ HasValue(calibration_y) /\ HasNaN(calibration_y)

\* C6: when an adapter raises in a step of the sweep, the module is idle
\* afterwards.
C6_AdapterFailureEndsSweep ==
    (last.op \in {"start", "measure"} /\ last.res = "raised")
        => module_state = "idle"

\* C5: fit() and the building of the interpolators on a curve that holds a
\* missing entry fail with an error and leave the model parameters and the
\* interpolators as they were.
C5_IncompleteCurveRefused ==
    [][(last'.op \in {"fit", "set_interpolated"} /\ HasNaN(calibration_y))
         => /\ last'.res \in {"raised", "unusable"}
            /\ UNCHANGED <<model_params, interpolated,
                           interpolated_inverse>>]_vars

\* C7: a set_power made while a sweep is running writes nothing to the
\* control back-end.
C7_SetPowerRejectedWhileSweeping ==
    (last.op = "set_power" /\ module_state = "running") => ~last.wrote

\* C8: a set_power of a value below power_min or above power_max writes
\* nothing to the control back-end.
C8_OutOfRangeRejected ==
    (last.op = "set_power" /\ last.warned) => ~last.wrote

\* C9: a value written to the control back-end, by a step of the sweep or by
\* set_power, lies within the effective bounds of the moment and is a
\* number.
C9_WritesWithinBounds ==
    last.wrote
        => /\ ~IsNaN(control)
           /\ Le(get_control_limits[1], control)
           /\ Le(control, get_control_limits[2])

\* A set_power in interpolated mode has written.
C9_Witness ==
    /\ last.op = "set_power" /\ last.wrote
    /\ use_interpolated
    /\ ~IsNaN(control)

\* C10: get_power returns 0 when a switch is connected and reports off,
\* whatever the control value; when the switch reports on or there is none,
\* it returns the active mapping's power for the current control value (the
\* interpolator's, the model's, and 0 while no interpolator is built).
ActivePowerOf(c) ==
    IF use_interpolated
    THEN IF interpolated = None THEN 0 ELSE InterpCall(interpolated[1], c)
    ELSE aom_model(model_params[1], c)
C10_SwitchOverlay ==
    last.op = "get_power"
        => IF switch_connected /\ ~switch_state
           THEN last.res = "ok" /\ last.ret = 0
           ELSE last.res = "ok" => last.ret = ActivePowerOf(control)

C10_Witness ==
    /\ last.op = "get_power" /\ last.res = "ok"
    /\ switch_connected /\ ~switch_state
    /\ ActivePowerOf(control) > 0
    /\ last.ret = 0

\* With the switch on, get_power has returned a mapping's non-zero power.
C10_WitnessOn ==
    /\ last.op = "get_power" /\ last.res = "ok"
    /\ switch_connected /\ switch_state
    /\ last.ret > 0

\* C11: the state of the switch changes in no step but an explicit
\* set_switch_state: set_power, the steps of the sweep, fit and the change
\* of mapping leave it as it is.
C11_SwitchLeftAlone ==
    [][switch_state' # switch_state => last'.op = "set_switch_state"]_vars

\* set_power has written while the switch was off, and the switch is off.
C11_Witness ==
    /\ last.op = "set_power" /\ last.wrote
    /\ switch_connected /\ ~switch_state

\* C12: a set_power that is rejected (the value is out of the power range,
\* there is no mapping to invert, the control value is refused) and a
\* start_configure_measurement that is rejected (a sweep is running, the
\* samples cannot be generated) leave the control value, the curve, the
\* model parameters, the mapping mode and the sweep state as they were.
C12_RejectedCallsNoEffect ==
    [][(\/ /\ last'.op = "set_power"
           /\ \/ last'.warned
              \/ last'.res \in {"uncalibrated", "raised", "refused"}
        \/ /\ last'.op = "start"
           /\ last'.res \in {"rejected", "raised"})
         => UNCHANGED <<control, calibration_x, calibration_y, mappingVars,
                        module_state, timer>>]_vars

\* C13: stop_configure_measurement called while a sweep is running, the
\* timer pending or not, leaves the module idle at once, and a
\* start_configure_measurement that comes right after it is accepted.
C13_AbortReturnsToIdle ==
    [][/\ (last'.op = "stop" /\ module_state = "running")
            => (last'.res = "stopped" /\ module_state' = "idle")
       /\ (last.op = "stop" /\ last.res = "stopped" /\ last'.op = "start")
            => last'.res # "rejected"]_vars

\* A sweep was stopped while it waited for its timer: the last hardware
\* call is a write that no read followed.
C13_Witness ==
    /\ last.op = "stop" /\ last.res = "stopped"
    /\ module_state = "idle"
    /\ Len(log) > 0 /\ log[Len(log)][1] = "w"

\* C14: once the module is idle again no timer is pending, and until the
\* next start_configure_measurement no step writes the control value, reads
\* the power meter or records a sample.
C14_NoActivityAfterAbort ==
    [][(module_state = "idle" /\ last'.op # "start")
         => /\ ~timer /\ ~timer'
            /\ UNCHANGED <<log, control, calibration_x, calibration_y>>]_vars

\* After the stop of a sweep that waited for its timer another call has been
\* made, and the sweep has done nothing more.
C14_Witness ==
    /\ last.op \in {"set_resolution", "set_type"}
    /\ module_state = "idle" /\ ~timer
    /\ Len(log) > 0 /\ log[Len(log)][1] = "w"
    /\ HasNaN(calibration_y)

\* C15: a set_power made while the active mapping has nothing to invert
\* (interpolated mode with no interpolator built, parametric mode with no
\* model) fails, writes nothing and leaves the control value as it was.
NothingToInvert ==
    \/ use_interpolated /\ interpolated_inverse = None
    \/ ~use_interpolated /\ model # "aom"
C15_UncalibratedRefused ==
    [][(last'.op = "set_power" /\ NothingToInvert)
         => /\ last'.res \in {"uncalibrated", "raised"}
            /\ ~last'.wrote
            /\ control' = control]_vars

\* set_power has been refused in interpolated mode before any calibration.
C15_Witness ==
    /\ last.op = "set_power" /\ last.res = "uncalibrated"
    /\ use_interpolated /\ interpolated_inverse = None

\* set_power has failed in parametric mode without a model.
C15_WitnessNoModel ==
    /\ last.op = "set_power" /\ last.res = "raised"
    /\ ~use_interpolated /\ model = "none"

\* C16: in interpolated mode, when the power samples the inverse was built
\* on are all measured but not strictly monotonic, set_power computes no
\* control value from them and writes nothing.
StrictlyMonotonic(y) ==
    \/ \A p \in 1..(Len(y) - 1) : y[p] < y[p + 1]
    \/ \A p \in 1..(Len(y) - 1) : y[p] > y[p + 1]
C16_NonMonotonicNotInverted ==
    (/\ last.op = "set_power"
     /\ use_interpolated /\ interpolated_inverse # None
     /\ ~HasNaN(interpolated_inverse[1].x)
     /\ ~StrictlyMonotonic(interpolated_inverse[1].x))
        => ~last.wrote

\* C17: each effective bound is the back-end's when no limit is configured
\* for that side and otherwise the tighter of the two, and the effective
\* range is never wider than the back-end's.
C17_BoundsOnlyShrink ==
    last.op = "get_control_limits"
        => LET low  == last.ret[1]
               high == last.ret[2]
               cfg  == config_control_limits
           IN  /\ cfg[1] = None => low = hw_limits[1]
               /\ cfg[1] # None
                    => /\ low \in {cfg[1][1], hw_limits[1]}
                       /\ low >= cfg[1][1]
               /\ cfg[2] = None => high = hw_limits[2]
               /\ cfg[2] # None
                    => /\ high \in {cfg[2][1], hw_limits[2]}
                       /\ high <= cfg[2][1]
               /\ hw_limits[1] <= low
               /\ high <= hw_limits[2]

\* Limits are configured on both sides, each looser than the back-end's,
\* and the effective limits are the back-end's.
C17_Witness ==
    /\ last.op = "get_control_limits"
    /\ config_control_limits[1] # None /\ config_control_limits[2] # None
    /\ config_control_limits[1][1] < hw_limits[1]
    /\ config_control_limits[2][1] > hw_limits[2]
    /\ last.ret = hw_limits

\* A configured lower limit inside the back-end's range is the effective one.
C17_WitnessTighter ==
    /\ last.op = "get_control_limits"
    /\ config_control_limits[1] = Some(500000)
    /\ hw_limits = <<0, 1000000>>
    /\ last.ret[1] = 500000

\* C18: _get_control_limits never returns a pair with low > high: where the
\* back-end's limits and the configured ones do not intersect it fails.
C18_EmptyRangeIsError ==
    last.op = "get_control_limits"
        => \/ last.res = "raised"
           \/ last.ret[1] <= last.ret[2]

\* C19: the power the active mapping gives for the control value 0 is
\* exactly 0: a get_power made while the control back-end holds 0 and the
\* switch is not off returns 0, with the model and with an interpolator
\* built on a curve measured in full.
C19_ZeroBoundary ==
    (/\ last.op = "get_power" /\ last.res = "ok"
     /\ get_switch_state # Some(FALSE)
     /\ control = 0
     /\ (use_interpolated /\ interpolated # None)
            => ~HasNaN(interpolated[1].y))
        => last.ret = 0

\* C20: for the control values within the limits other than 0, the inverse
\* function applied to the direct function's power gives the control value
\* back, within a hundredth of it.
RoundTripClose ==
    /\ 100 * (last.ret - last.arg) <= last.arg
    /\ 100 * (last.arg - last.ret) <= last.arg
C20_ParametricRoundTrip ==
    (last.op = "aom_round_trip" /\ last.arg # 0) => RoundTripClose

\* The round trip is close for the parameter sets with beta = 1.
C20_RoundTripBetaOne ==
    (last.op = "aom_round_trip" /\ last.arg # 0
       /\ model_params[1].beta = 1) => RoundTripClose

\* C21: power_min and power_max are the ordered image of the two control
\* limits under the active mapping: (min, max) of the power at the low limit
\* and the power at the high limit.  Stated where the interpolated mapping
\* is active and its interpolator is the one of the present, complete curve,
\* and where the parametric mapping is active.
C21_PowerBoundsAreImageOfLimits ==
    (/\ last.op = "power_bounds" /\ last.res = "ok"
     /\ use_interpolated =>
          /\ ~HasNaN(calibration_y)
          /\ interpolated = Some(Interp1d(calibration_x, calibration_y)))
        => LET lim  == get_control_limits
               low  == ActivePowerOf(lim[1])
               high == ActivePowerOf(lim[2])
           IN  last.ret = <<Min2(low, high), Max2(low, high)>>

\* The same for the parametric mapping alone.
C21_ParametricBounds ==
    (last.op = "power_bounds" /\ last.res = "ok" /\ ~use_interpolated)
        => LET lim  == get_control_limits
               low  == ActivePowerOf(lim[1])
               high == ActivePowerOf(lim[2])
           IN  last.ret = <<Min2(low, high), Max2(low, high)>>

\* C23: the active mapping changes only in a call of set_interpolated: no
\* sweep step, start, stop, fit or set_power changes use_interpolated.
C23_ModeChangesOnlyExplicitly ==
    [][use_interpolated' # use_interpolated
         => last'.op = "set_interpolated"]_vars

\* A sweep has run to its end and a fit was made in parametric mode: the
\* mapping is still the parametric one.
C23_Witness ==
    /\ last.op = "fit"
    /\ ~use_interpolated
    /\ module_state = "idle"
    /\ Len(calibration_y) > 0 /\ ~HasNaN(calibration_y)

\* C24: an accepted start_configure_measurement replaces both arrays of the
\* curve: the control array is the newly generated one and every power
\* sample is missing; from then on a power sample that is present was read
\* by the sweep in progress (log holds the hardware calls since its start).
C24_RecalibrationReplacesCurve ==
    [][/\ (last'.op = "start" /\ last'.res # "rejected")
           => /\ calibration_x' = SweepSamples
              /\ Len(calibration_y') = Len(calibration_x')
              /\ \A p \in 1..Len(calibration_y') : IsNaN(calibration_y'[p])
       /\ \A p \in 1..Len(calibration_y') :
              ~IsNaN(calibration_y'[p])
                  => \E i \in 1..Len(log') : log'[i] = <<"r", p>>]_vars

\* A complete curve was measured and made the interpolator; a new sweep has
\* been started, and the curve holds none of those samples.
C24_Witness ==
    /\ last.op = "start" /\ last.res = "stepped"
    /\ interpolated # None /\ ~HasNaN(interpolated[1].y)
    /\ Len(calibration_y) = MaxRes /\ ~HasValue(calibration_y)

\* The ends a sweep is generated between: the effective limits, the low one
\* replaced by high * 1e-6 when it is 0 and the spacing is logarithmic.
SweepEnds ==
    LET lim == get_control_limits
    IN  <<IF config_type = "Logarithmic" /\ lim[1] = 0
          THEN lim[2] \div 1000000 ELSE lim[1],
          lim[2]>>

\* The spacing of the samples x: even (equal steps, up to the rounding of
\* one grid unit) when linear; geometric, which makes the signed steps grow
\* from one to the next, when logarithmic.
SpacedAsConfigured(x) ==
    \A p \in 2..(Len(x) - 1) :
        LET before == x[p] - x[p - 1]
            after  == x[p + 1] - x[p]
        IN  IF config_type = "Linear"
            THEN after - before \in {-1, 0, 1}
            ELSE after > before /\ x[p] > 0

\* C25: an accepted start with resolution n >= 2 generates exactly n control
\* samples, the first at the low end (high * 1e-6 for a low of 0 in
\* logarithmic spacing), the last at the high end, evenly spaced when linear
\* and geometrically spaced when logarithmic; with n = 1 the one sample is
\* the low end, with n = 0 there is none.
C25_SweepGeneration ==
    (last.op = "start" /\ last.res # "rejected")
        => /\ Len(calibration_x) = resolution
           /\ resolution >= 1 => calibration_x[1] = SweepEnds[1]
           /\ resolution >= 2 => calibration_x[resolution] = SweepEnds[2]
           /\ SpacedAsConfigured(calibration_x)

\* A logarithmic sweep of MaxRes samples from a low limit of 0.
C25_Witness ==
    /\ last.op = "start" /\ last.res = "stepped"
    /\ config_type = "Logarithmic" /\ resolution = MaxRes
    /\ get_control_limits[1] = 0
    /\ calibration_x[1] = get_control_limits[2] \div 1000000
    /\ calibration_x[MaxRes] = get_control_limits[2]

\* C25 as stated, for every resolution: n samples that hold both ends.
C25_BothEndsForEveryResolution ==
    (last.op = "start" /\ last.res # "rejected")
        => /\ Len(calibration_x) = resolution
           /\ resolution >= 1 => /\ calibration_x[1] = SweepEnds[1]
                                 /\ calibration_x[resolution] = SweepEnds[2]
           /\ SpacedAsConfigured(calibration_x)

\* How often the call just made emitted sigDoNextPoint, the signal the
\* window follows the calibration with (laser_power_controller_gui.py:256).
ProgressFired ==
    Cardinality({i \in 1..Len(last'.emits) :
                    last'.emits[i] = "sigDoNextPoint"})

\* The step records a sample of the curve.
SampleRecorded ==
    /\ last'.op = "measure"
    /\ \E p \in 1..Len(calibration_y) :
          IsNaN(calibration_y[p]) /\ ~IsNaN(calibration_y'[p])

\* The step ends the sweep, by completion or by stop.
SweepIsEnded ==
    module_state = "running" /\ module_state' = "idle"

\* C26: the progress notification is fired once in a step that records a
\* sample and in no other step, and the step that ends a sweep fires a
\* notification besides it.
C26_SweepNotifications ==
    [][/\ ProgressFired = (IF SampleRecorded THEN 1 ELSE 0)
       /\ SweepIsEnded => \E i \in 1..Len(last'.emits) :
                            last'.emits[i] # "sigDoNextPoint"]_vars

\* The second half of C26 alone.
C26_EndOfSweepNotified ==
    [][SweepIsEnded => \E i \in 1..Len(last'.emits) :
                         last'.emits[i] # "sigDoNextPoint"]_vars

\* C27: in every state the two arrays of the curve have the same length; a
\* measurement is recorded at the first missing position p, the control
\* value the sweep wrote for it, if it wrote one, is that of p, the control
\* array is not touched and a sample once recorded is not overwritten by a
\* later measurement of the sweep.
C27_CurveAligned ==
    [][/\ Len(calibration_x') = Len(calibration_y')
       /\ last'.op = "measure" =>
             /\ calibration_x' = calibration_x
             /\ \A p \in 1..Len(calibration_y) :
                   /\ calibration_y'[p] # calibration_y[p]
                         => /\ IsNaN(calibration_y[p])
                            /\ \A q \in 1..(p - 1) : ~IsNaN(calibration_y[q])
                            /\ (Len(log) > 0 /\ log[Len(log)][1] = "w")
                                  => log[Len(log)] = <<"w", p>>
                   /\ ~IsNaN(calibration_y[p])
                         => calibration_y'[p] = calibration_y[p]]_vars

\* Part of a sweep is measured: the first sample is recorded after the
\* write of its control value, the last one is still missing.
C27_Witness ==
    /\ last.op = "measure" /\ last.res = "stepped"
    /\ Len(calibration_x) = MaxRes /\ Len(calibration_y) = MaxRes
    /\ ~IsNaN(calibration_y[1]) /\ IsNaN(calibration_y[MaxRes])
    /\ Len(log) >= 2 /\ log[1] = <<"w", 1>> /\ log[2] = <<"r", 1>>

\* C28: a call of get_power (and with it get_power_setpoint) or a reading of
\* power_min / power_max writes nothing to the control back-end and leaves
\* the sweep state, the settle timer, the curve and everything else of the
\* controller as it was, also while a sweep runs.
C28_QueriesReadOnly ==
    [][last'.op \in {"get_power", "power_bounds"}
         => /\ ~last'.wrote /\ last'.emits = <<>>
            /\ UNCHANGED <<sweepVars, control, log, settingVars, mappingVars,
                           switch_state, configVars>>]_vars

\* The power bounds were read between two samples of a running sweep, with
\* the timer armed.
C28_Witness ==
    /\ last.op = "power_bounds" /\ last.res = "ok"
    /\ module_state = "running" /\ timer
    /\ HasValue(calibration_y) /\ HasNaN(calibration_y)

\* The same for get_power.
C28_WitnessGetPower ==
    /\ last.op = "get_power" /\ last.res = "ok"
    /\ module_state = "running" /\ timer
    /\ HasValue(calibration_y) /\ HasNaN(calibration_y)

\* C29: when set_power or get_power is answered in interpolated mode, the
\* interpolators it uses are the ones of the present calibration curve (or
\* there is none yet and the curve is empty).  Stated for the curve at
\* rest: no sweep running, every sample measured.
C29_InterpolatorsFollowCurve ==
    (/\ last.op \in {"set_power", "get_power"}
     /\ use_interpolated
     /\ module_state = "idle"
     /\ ~HasNaN(calibration_y))
        => IF Len(calibration_y) = 0
           THEN interpolated = None /\ interpolated_inverse = None
           ELSE /\ interpolated
                      = Some(Interp1d(calibration_x, calibration_y))
                /\ interpolated_inverse
                      = Some(Interp1d(calibration_y, calibration_x))

\* C29 for every state in which the interpolated mapping is active,
\* whatever was called last and whether or not a sweep runs.
C29_InAllStates ==
    (use_interpolated /\ Len(calibration_y) >= 2)
        => /\ interpolated = Some(Interp1d(calibration_x, calibration_y))
           /\ interpolated_inverse
                 = Some(Interp1d(calibration_y, calibration_x))

\* C30: a sample recorded by the sweep was read after the control value of
\* its position had been written to the back-end: for every recorded
\* sample the record of the sweep's hardware calls holds the write of its
\* position, directly followed by its reading; no sample is recorded for a
\* position whose write was refused.
C30_RecordedImpliesApplied ==
    \A p \in 1..Len(calibration_y) :
        ~IsNaN(calibration_y[p])
            => \E i \in 2..Len(log) :
                  log[i - 1] = <<"w", p>> /\ log[i] = <<"r", p>>

\* C31: between two handlers, a module in state 'running' has its settle
\* timer armed: a sweep never stays 'running' with nothing scheduled to
\* continue it.
C31_NoStuckSweep ==
    module_state = "running" => timer

\* C32: there is one settle timer, and it never outlives its sweep: a stop
\* disarms it, a start is accepted only with the module idle and no timer
\* pending, so that the timer pending after it is the one this start armed,
\* and a timeout records a sample only in a running sweep, at the first
\* missing position of its curve.
C32_NoMixedSweeps ==
    [][/\ (last'.op = "stop" /\ last'.res = "stopped") => ~timer'
       /\ (last'.op = "start" /\ last'.res # "rejected")
             => /\ module_state = "idle" /\ ~timer
                /\ ~HasValue(calibration_y')
                /\ \A i \in 1..Len(log') : log'[i] = <<"w", 1>>
       /\ (last'.op = "measure" /\ calibration_y' # calibration_y)
             => /\ module_state = "running" /\ timer
                /\ calibration_x' = calibration_x
                /\ Len(log) < Len(log')]_vars

\* A sweep was stopped and started again at once: the new sweep waits for
\* its first timeout with an empty curve.
C32_Witness ==
    /\ last.op = "start" /\ last.res = "stepped" /\ last.after = "stop"
    /\ module_state = "running" /\ timer
    /\ Len(calibration_y) > 0 /\ ~HasValue(calibration_y)
    /\ log = <<<<"w", 1>>>>

\* The number of recorded samples of y.
Filled(y) == Cardinality({p \in 1..Len(y) : ~IsNaN(y[p])})

\* C33: the recorded samples of the curve are its first k entries for some
\* k, the next position the sweep steps to is k + 1 (or none when the curve
\* is full), and every reading of the power meter taken by the sweep
\* increases k by exactly one.
C33_FilledPrefixGrowsByOne ==
    [][/\ FilledPrefix(calibration_y')
       /\ get_next_index(calibration_y')
             = (IF Filled(calibration_y') = Len(calibration_y') THEN 0
                ELSE Filled(calibration_y') + 1)
       /\ (last'.op = "measure" /\ log' # log)
             => Filled(calibration_y') = Filled(calibration_y) + 1]_vars

\* The first two parts of C33 alone, as a state invariant.
C33_FilledPrefixOnly ==
    /\ FilledPrefix(calibration_y)
    /\ get_next_index(calibration_y)
          = (IF Filled(calibration_y) = Len(calibration_y) THEN 0
             ELSE Filled(calibration_y) + 1)

\* C34: set_power emits sigNewPower only when it has written a control value
\* to the back-end: a call refused by the bounds check or refused as
\* uncalibrated emits nothing.
C34_NotifiedOnlyWhenWritten ==
    (last.op = "set_power" /\ ~last.wrote) => last.emits = <<>>

\* The uncalibrated half of C34 alone.
C34_UncalibratedSilent ==
    (last.op = "set_power" /\ last.res = "uncalibrated") => last.emits = <<>>

\* C35: set_resolution and set_type change nothing of a sweep: the curve,
\* the sweep state, the timer and the back-end are as before the call, and
\* the steps of the running sweep go on over the control samples it was
\* started with; only a start generates samples, from the settings it
\* finds.
C35_SettingsLeaveSweepAlone ==
    [][/\ last'.op \in {"set_resolution", "set_type"}
             => UNCHANGED <<sweepVars, control, log, mappingVars>>
       /\ last'.op \in {"measure", "stop"}
             => /\ calibration_x' = calibration_x
                /\ UNCHANGED settingVars
       /\ (last'.op = "start" /\ last'.res # "rejected")
             => Len(calibration_x') = resolution]_vars

\* The resolution was changed during a sweep of MaxRes samples, and the
\* sweep has measured a further sample of the curve it was started with.
C35_Witness ==
    /\ last.op = "measure" /\ last.res = "stepped"
    /\ module_state = "running"
    /\ Len(calibration_x) = MaxRes /\ resolution # MaxRes
    /\ HasValue(calibration_y)

\* C36: a start accepted with resolution 0 leaves an empty curve and the
\* module idle again within the call, with no write of the control value,
\* no timer started and no reading of the power meter.
C36_EmptySweep ==
    [][(last'.op = "start" /\ last'.res # "rejected" /\ resolution = 0)
         => /\ calibration_x' = <<>> /\ calibration_y' = <<>>
            /\ module_state' = "idle" /\ last'.res = "finished"
            /\ ~timer'
            /\ ~last'.wrote /\ control' = control
            /\ log' = <<>>]_vars

\* A start with resolution 0 has been accepted, after a sweep that had
\* written and measured.
C36_Witness ==
    /\ last.op = "start" /\ last.res = "finished" /\ last.after = "measure"
    /\ resolution = 0
    /\ module_state = "idle"
    /\ calibration_x = <<>>

\* C37: set_type takes 'Logarithmic' and 'Linear' and refuses every other
\* value, leaving config_type as it was; config_type is one of the two in
\* every state.
C37_SpacingValidated ==
    [][/\ config_type' \in {"Logarithmic", "Linear"}
       /\ last'.op = "set_type"
             => /\ last'.res = "refused" => config_type' = config_type
                /\ UNCHANGED <<sweepVars, resolution, control, log>>]_vars

\* A value that is neither was given, in logarithmic spacing.
C37_Witness ==
    /\ last.op = "set_type" /\ last.res = "refused"
    /\ config_type = "Logarithmic"

\* The invocations of _watchdog_body that are pending, queued or on a timer:
\* each is a chain that goes on polling for as long as it finds the
\* watchdog active.
WatchdogChains == watchdog_queued + watchdog_timers

\* C38: at most one chain of _watchdog_body is alive while the watchdog is
\* active, whatever the sequence of toggle_watchdog calls and timeouts.
C38_SingleWatchdogChain ==
    watchdog_active => WatchdogChains <= 1

\* C38 for two chains that have both polled: after a poll of the active
\* watchdog, its timer is the only invocation pending.
C38_OnePollPerInterval ==
    (last.op \in {"watchdog_invoked", "watchdog_timeout"}
       /\ last.res = "polled")
        => WatchdogChains = 1

=============================================================================
